---- MODULE Spec2Model ----
(***************************************************************************)
(* arborist: indexing pipeline (database.rs), file categories             *)
(* (file_management.rs) and summary generation (summary.rs).              *)
(*                                                                         *)
(* Strings that the code inspects character by character (paths, file     *)
(* extensions) are sequences of one-character strings; strings the code   *)
(* only tests for emptiness or copies (summaries) are TLA+ strings.       *)
(***************************************************************************)
EXTENDS Integers, Sequences, FiniteSets, TLC

\* ------------------------------------------------------------------ bounds
MaxPathLen == 5
MaxListLen == 2
MaxRuns == 2
MaxNodes == 3

\* ------------------------------------------------- paths and FileType
\* Characters paths are drawn from: lower and upper case letters, a digit,
\* the extension dot and the path separator.
PathChars == {"m", "p", "g", "d", "3", "M", "P", ".", "/"}

Paths == UNION {[1..n -> PathChars] : n \in 0..MaxPathLen}

None == [some |-> FALSE, v |-> <<>>]

Some(x) == [some |-> TRUE, v |-> x]

\* the letters, upper case and lower case
UpperLetters == <<"A","B","C","D","E","F","G","H","I","J","K","L","M","N","O","P","Q","R","S","T","U","V","W","X","Y","Z">>

LowerLetters == <<"a","b","c","d","e","f","g","h","i","j","k","l","m","n","o","p","q","r","s","t","u","v","w","x","y","z">>

\* char::to_lowercase: an upper-case letter becomes its lower-case letter,
\* every other character is kept
LowerChar(c) ==
    IF \E i \in 1..Len(UpperLetters) : UpperLetters[i] = c
    THEN LowerLetters[CHOOSE i \in 1..Len(UpperLetters) : UpperLetters[i] = c]
    ELSE c

to_lowercase_identity(s) == s

\* str::to_lowercase
to_lowercase(s) == [i \in 1..Len(s) |-> LowerChar(s[i])]

RECURSIVE SplitSegs(_, _, _)
\* the path split at every "/": acc holds the finished segments, cur the open one
SplitSegs(p, acc, cur) ==
    IF p = <<>> THEN Append(acc, cur)
    ELSE IF Head(p) = "/" THEN SplitSegs(Tail(p), Append(acc, cur), <<>>)
    ELSE SplitSegs(Tail(p), acc, Append(cur, Head(p)))

\* a segment that Path::components yields at the end of a path: empty
\* segments (repeated or trailing separators) and "." segments are dropped
IsKeptSeg(s) == s # <<>> /\ s # <<".">>

\* Path::file_name: the last component when it is a normal one (not "..")
file_name(p) ==
    LET segs == SelectSeq(SplitSegs(p, <<>>, <<>>), IsKeptSeg)
    IN  IF segs = <<>> THEN None
        ELSE IF segs[Len(segs)] = <<".", ".">> THEN None
        ELSE Some(segs[Len(segs)])

\* index of the last "." of a file name, 0 when it has none
LastDot(fn) ==
    IF \E i \in 1..Len(fn) : fn[i] = "."
    THEN CHOOSE i \in 1..Len(fn) : fn[i] = "." /\ \A j \in (i+1)..Len(fn) : fn[j] # "."
    ELSE 0

\* Path::extension: the part of the file name after its last ".", None when
\* there is no file name, no "." or nothing before the last "."
extension(p) ==
    LET f == file_name(p)
    IN  IF ~f.some THEN None
        ELSE LET k == LastDot(f.v)
             IN  IF k = 0 \/ k = 1 THEN None
                 ELSE Some(SubSeq(f.v, k + 1, Len(f.v)))

FileTypes == {"Document", "Image", "Audio", "Video", "Archive", "Other"}

DocumentExts ==
    { <<"e","p","u","b">>,
      <<"p","d","f">>,
      <<"t","x","t">>,
      <<"d","o","c","x">>,
      <<"m","d">>,
      <<"e","p","a","g","e">>,
      <<"r","t","f">>,
      <<"f","b","2">>,
      <<"a","z","w","3">>,
      <<"m","o","b","i">>,
      <<"d","o","c">>,
      <<"x","l","s","x">>,
      <<"c","s","v">>,
      <<"t","e","x">>,
      <<"b","i","b">>,
      <<"j","s","o","n">>,
      <<"x","m","l">>,
      <<"h","t","m","l">>,
      <<"c","o","n","f">>,
      <<"s","e","t","t","i","n","g","s">>,
      <<"p","r","o","p">>,
      <<"l","o","g">>,
      <<"d","j","v","u">>,
      <<"c","l","s">>,
      <<"p","k","t">>,
      <<"s","a","v">>,
      <<"s","e","t">>,
      <<"b","i","n">>,
      <<"b","a","c","k","u","p">>,
      <<"b","u","n","d","l","e">>,
      <<"t","y","p">>,
      <<"s","c","p","t">>,
      <<"e","P","u","b">>,
      <<"P","D","F">>,
      <<"D","O","C","X">>,
      <<"X","L","S","X">> }

ImageExts ==
    { <<"j","p","g">>,
      <<"p","n","g">>,
      <<"j","p","e","g">>,
      <<"g","i","f">>,
      <<"b","m","p">>,
      <<"t","i","f","f">>,
      <<"w","e","b","p">>,
      <<"s","v","g">>,
      <<"h","e","i","c">>,
      <<"a","v","i","f">>,
      <<"p","g","m">>,
      <<"o","p","f">>,
      <<"i","c","o","n">> }

AudioExts ==
    { <<"m","p","3">>,
      <<"w","a","v">>,
      <<"m","4","b">>,
      <<"o","g","g">>,
      <<"f","l","a","c">>,
      <<"a","a","c">>,
      <<"w","m","a">>,
      <<"a","m","r">> }

VideoExts ==
    { <<"m","p","4">>,
      <<"m","k","v">>,
      <<"w","e","b","m">>,
      <<"a","v","i">>,
      <<"m","o","v">>,
      <<"w","m","v">>,
      <<"f","l","v">>,
      <<"m","p","e","g">>,
      <<"3","g","p">>,
      <<"m","4","v">> }

ArchiveExts ==
    { <<"z","i","p">>,
      <<"t","a","r">>,
      <<"r","a","r">>,
      <<"7","z">>,
      <<"g","z">>,
      <<"b","z","2">>,
      <<"i","s","o">>,
      <<"d","m","g">>,
      <<"c","a","b">>,
      <<"j","a","r">>,
      <<"w","a","r">>,
      <<"e","a","r">>,
      <<"p","k","g">>,
      <<"d","e","b">>,
      <<"r","p","m">>,
      <<"a","p","k">>,
      <<"c","p","i","o">> }

\* the match of FileType::from_path on the lower-cased extension
MatchExtension(file_extension) ==
    IF file_extension \in DocumentExts THEN "Document"
    ELSE IF file_extension \in ImageExts THEN "Image"
    ELSE IF file_extension \in AudioExts THEN "Audio"
    ELSE IF file_extension \in VideoExts THEN "Video"
    ELSE IF file_extension \in ArchiveExts THEN "Archive"
    ELSE "Other"

\* FileType::from_path
from_path(path) ==
    LET ext == extension(path)
    IN  IF ~ext.some THEN "Other" ELSE MatchExtension(to_lowercase(ext.v))

\* ------------------------------------------------------------ file records
\* FileMetadata as scan_dir builds it: the name is the path's file name and
\* the filetype is FileType::from_path of the path. summary is the field
\* get_or_generate_summary reads.
FileMetadata(path, size, summary) ==
    [name |-> file_name(path).v, path |-> path, size |-> size,
     filetype |-> from_path(path), summary |-> summary]

PathDoc == <<"d", "/", "m", ".", "M", "d">>

PathPlain == <<"d", "/", "g">>

PathImage == <<"p", ".", "p", "g", "m">>

\* The file records a call can be given: a document without a summary,
\* a file without extension that has one, an image.
FileUniverse ==
    { FileMetadata(PathDoc, 1, ""),
      FileMetadata(PathPlain, 2, "old"),
      FileMetadata(PathImage, 3, "") }

FileLists == UNION {[1..n -> FileUniverse] : n \in 0..MaxListLen}

\* Option<bool> argument force_regenerate
ForceOptions == {"None", "SomeFalse", "SomeTrue"}

\* force_regenerate.unwrap_or(false)
unwrap_or_false(f) == f = "SomeTrue"

\* responses of the language model: an empty text or a text
LLMResponses == {"", "gen"}

\* the collection names create_hybrid_collection is called with (main, line 38)
CollectionNames == {"file_data"}

\* the collection create_hybrid_collection asks for
HybridConfig(collection_name) ==
    [name |-> collection_name,
     vectors |-> [name |-> "novum", size |-> 768, distance |-> "Cosine"],
     sparse_vectors |-> [name |-> "splade"]]

NoCall == [name |-> "", existed |-> FALSE, answered |-> FALSE, requested |-> FALSE,
           result |-> "none"]

\* ----------------------------------------------------------- file system
\* utils.rs line 92: WalkDir::max_depth
MaxDepth == 10

\* names of the entries below the root: a name with a document extension,
\* a hidden name, a name of the excluded set
EntryNames == {<<"m", ".", "m", "d">>, <<".", "g">>, <<"d", "i", "s", "t">>}

\* root paths scan_dir is given: the default ".", a plain directory, a
\* directory whose name starts with "."
RootPaths == {<<".">>, <<"d">>, <<"d", "/", ".", "g">>}

\* DirScanConfig::default: paths_to_skip
DefaultPathsToSkip ==
    { <<"n", "o", "d", "e", "_", "m", "o", "d", "u", "l", "e", "s">>,
      <<"d", "o", "w", "n", "l", "o", "a", "d", "e", "d", "-", "t", "o", "r", "r", "e", "n", "t", "s">>,
      <<"t", "a", "r", "g", "e", "t">>,
      <<"b", "u", "i", "l", "d">>,
      <<"d", "i", "s", "t">>,
      <<"d", "o", "w", "n", "l", "o", "a", "d", "e", "d", "-", "t", "o", "r", "r", "e", "n", "t", "s">>,
      <<".", "g", "i", "t">> }

\* a file system below a root: nodes 0..n, node 0 the root directory, every
\* other node with a parent of smaller number, a kind and a name. badKind
\* "walk": directory bad cannot be listed; "stat": the metadata of node bad
\* cannot be read; "none": every entry is readable.
FsRecord(root, n, parent, kind, name, bad, badKind) ==
    [root |-> root, n |-> n, parent |-> parent, kind |-> kind, name |-> name,
     bad |-> bad, badKind |-> badKind]

WellFormedFs(f) ==
    /\ f.kind[0] = "dir"
    /\ \A i \in 1..f.n : f.parent[i] < i /\ f.kind[f.parent[i]] = "dir"
    /\ \A i \in 1..f.n, j \in 1..f.n :
        (i # j /\ f.parent[i] = f.parent[j]) => f.name[i] # f.name[j]
    /\ f.badKind = "none" => f.bad = 0
    /\ f.badKind = "walk" => f.kind[f.bad] = "dir"

\* the entry that fails and how: none, a directory that cannot be listed
\* ("walk"), an entry whose metadata cannot be read ("stat")
BadChoices(n) == {<<0, "none">>} \cup ((0..n) \X {"walk", "stat"})

\* every file system of at most MaxNodes entries below the root
SmallFileSystems ==
    UNION { { f \in { FsRecord(r, n, p, [i \in 0..n |-> IF i = 0 THEN "dir" ELSE k[i]],
                               nm, b[1], b[2]) :
                        r \in RootPaths,
                        p \in {q \in [1..n -> 0..(n - 1)] : \A i \in 1..n : q[i] < i},
                        k \in [1..n -> {"dir", "file"}], nm \in [1..n -> EntryNames],
                        b \in BadChoices(n) } :
              WellFormedFs(f) } : n \in 0..MaxNodes }

\* a chain of n nested entries below the root "d": directories, then a file
\* as the innermost entry
Chain(n) ==
    FsRecord(<<"d">>, n, [i \in 1..n |-> i - 1],
             [i \in 0..n |-> IF i = n THEN "file" ELSE "dir"],
             [i \in 1..n |-> <<"m", ".", "m", "d">>], 0, "none")

\* chains that end at, just inside and just beyond the maximum depth
DeepFileSystems == {Chain(n) : n \in (MaxDepth - 1)..(MaxDepth + 1)}

FileSystems == SmallFileSystems \cup DeepFileSystems

RECURSIVE PathOf(_, _)
\* entry.path(): the root path joined with the names down to the node
PathOf(f, i) ==
    IF i = 0 THEN f.root ELSE PathOf(f, f.parent[i]) \o <<"/">> \o f.name[i]

\* DirEntry::file_name: of the root, the file name of the root path or the
\* whole path when it has none; of another entry, its name
EntryName(f, i) ==
    IF i = 0
    THEN IF file_name(f.root).some THEN file_name(f.root).v ELSE f.root
    ELSE f.name[i]

\* len() of the metadata of a file
SizeOf(i) == 2 ^ i

\* tokio::fs::metadata(path) returns Err
StatFails(f, i) == f.badKind = "stat" /\ f.bad = i

\* read_dir of the directory returns Err
ListFails(f, i) == f.badKind = "walk" /\ f.bad = i

is_hidden_never(name) == FALSE

\* is_hidden: the entry's file name starts with '.'
is_hidden(name) == name # <<>> /\ name[1] = "."

\* should_skip: the entry's file name is one of paths_to_skip
should_skip(name, paths_to_skip) == name \in paths_to_skip

\* the filter_entry predicate of scan_dir
FilterEntry(f, i, skipHidden) ==
    /\ ~skipHidden \/ ~is_hidden(EntryName(f, i))
    /\ ~should_skip(EntryName(f, i), DefaultPathsToSkip)

RECURSIVE WalkFrom(_, _, _, _, _, _)
RECURSIVE WalkChildren(_, _, _, _, _, _, _)
\* WalkDir::new(path of i).max_depth(maxd), with filter_entry when filtered:
\* the items of the iterator from entry i at depth, directory before its
\* contents. An item is Ok (the entry) or Err (a directory that cannot be
\* listed, the root when its metadata cannot be read).
WalkFrom(f, i, depth, maxd, filtered, skipHidden) ==
    IF depth = 0 /\ StatFails(f, i) THEN <<[node |-> i, ok |-> FALSE]>>
    ELSE IF filtered /\ ~FilterEntry(f, i, skipHidden) THEN <<>>
    ELSE <<[node |-> i, ok |-> TRUE]>>
         \o (IF f.kind[i] = "dir" /\ depth < maxd
             THEN IF ListFails(f, i) THEN <<[node |-> i, ok |-> FALSE]>>
                  ELSE WalkChildren(f, i, 1, depth + 1, maxd, filtered, skipHidden)
             ELSE <<>>)

\* the walks of the children j, j+1, .. of directory i, in order
WalkChildren(f, i, j, depth, maxd, filtered, skipHidden) ==
    IF j > f.n THEN <<>>
    ELSE (IF f.parent[j] = i THEN WalkFrom(f, j, depth, maxd, filtered, skipHidden) ELSE <<>>)
         \o WalkChildren(f, i, j + 1, depth, maxd, filtered, skipHidden)

\* WalkDir::new(path) of the three helpers: no filter, no depth limit
WalkAll(f, i) == WalkFrom(f, i, 0, f.n + 1, FALSE, FALSE)

RECURSIVE SumSizes(_, _)
\* total_size over the file items of a walk
SumSizes(f, items) ==
    IF items = <<>> THEN 0
    ELSE (IF f.kind[Head(items).node] = "file" THEN SizeOf(Head(items).node) ELSE 0)
         + SumSizes(f, Tail(items))

\* calculate_folder_size: Err when the walk yields an Err or the metadata of
\* a file cannot be read, else the sum of the sizes of the files of the walk
calculate_folder_size(f, i) ==
    LET items == WalkAll(f, i)
    IN  IF \E k \in 1..Len(items) :
              \/ ~items[k].ok
              \/ f.kind[items[k].node] = "file" /\ StatFails(f, items[k].node)
        THEN [ok |-> FALSE, v |-> 0]
        ELSE [ok |-> TRUE, v |-> SumSizes(f, items)]

\* an Ok item of a walk whose entry is of the kind
IsOkOfKind(f, item, kind) == item.ok /\ f.kind[item.node] = kind

\* count_files_in_folder: the file entries of the walk, Err items dropped
count_files_in_folder(f, i) ==
    LET items == WalkAll(f, i)
    IN  Cardinality({k \in 1..Len(items) : IsOkOfKind(f, items[k], "file")})

\* count_folders_in_folder: the directory entries of the walk, Err items dropped
count_folders_in_folder(f, i) ==
    LET items == WalkAll(f, i)
    IN  Cardinality({k \in 1..Len(items) : IsOkOfKind(f, items[k], "dir")})

SnapshotNone(fml) == <<>>

\* line 119: files: file_metadata_list.clone()
SnapshotFiles(fml) == fml

\* lines 112-122: the FolderMetadata of a directory entry
FolderMetadata(f, i, folder_size, fml) ==
    [name |-> EntryName(f, i), path |-> PathOf(f, i), size |-> folder_size,
     file_count |-> count_files_in_folder(f, i), files |-> SnapshotFiles(fml),
     folder_count |-> count_folders_in_folder(f, i), summary |-> ""]

NoQuery == [requests |-> <<>>, use_sparse |-> FALSE, limit |-> 0, before |-> {},
            result |-> "none"]

\* query vectors and limits query_and_print_file_paths is called with
QueryVectors == {[embedding_of |-> "query"]}

QueryLimits == {1, 5}

VARIABLES
    rdPath,       \* argument of a read_document call
    rdCall,       \* the reader read_document handed the file to, and its outcome
    rdResult,     \* result of read_document
    mPc,          \* position of main
    mList,        \* scan_result.file_metadata_list of main
    mIdx,         \* position of main's for loop in mList
    mSummary,     \* summary of main's current file
    mProcessed,   \* indices main's loop went through to the end of the body
    mFailed,      \* indices whose summary or embedding returned Err in main
    mResult,      \* what main returned
    mExit,        \* where main returned
    store,        \* points of collection "file_data" in the vector store
    collections,  \* collections of the vector store
    createCall,   \* the last create_hybrid_collection call: what it saw and did
    queryCall,    \* the last query_and_print_file_paths call: what it sent and saw
    pc,           \* position of process_and_upload_files
    list,         \* file_metadata_list
    force,        \* force_regenerate argument
    idx,          \* position of the for loop in list
    points,       \* the batch
    summary,      \* summary of the current file
    dense,        \* dense_embeddings of the current file
    result,       \* return value of the run
    exit,         \* where the run returned
    nextId,       \* next fresh point id (Uuid::new_v4)
    runs,         \* number of runs started
    startStore,   \* store when the run started
    prev,         \* list and number of added points of the previous run
    skipped,      \* indices skipped as already indexed
    extracted,    \* indices a content reader was called for
    llmReqs,      \* requests sent to the language model
    embedded,     \* indices generate_embeddings was called for
    failed,       \* indices whose summary or embeddings returned Err
    noDense,      \* indices whose embedding returned no dense vector
    checkFailed,  \* indices whose dedup query returned Err
    upserts,      \* upsert requests sent in this run
    ftPath,       \* argument of a FileType::from_path call
    ftResult,     \* its result
    fs,                    \* the file system below the root scan_dir is given
    skip_hidden,           \* DirScanConfig.skip_hidden
    walk,                  \* the items of scan_dir's WalkDir iterator
    scanPc,                \* position of scan_dir
    scanPos,               \* position of the for loop in walk
    file_metadata_list,    \* scan_dir's file_metadata_list
    folder_metadata_list,  \* scan_dir's folder_metadata_list
    file_count,            \* scan_dir's file_count
    folder_count,          \* scan_dir's folder_count
    scanLogged,            \* entries whose error scan_dir printed
    scanResult             \* return value of scan_dir

storeVars == <<store, collections, createCall, queryCall>>

runVars == <<pc, list, force, idx, points, summary, dense, result, exit, nextId, runs>>

histVars == <<startStore, prev, skipped, extracted, llmReqs, embedded, failed,
              noDense, checkFailed, upserts>>

ftVars == <<ftPath, ftResult>>

\* variables of the operations that are modelled on their own
scanVars == <<fs, skip_hidden, walk, scanPc, scanPos, file_metadata_list,
              folder_metadata_list, file_count, folder_count, scanLogged, scanResult>>

rdVars == <<rdPath, rdCall, rdResult>>

mainVars == <<mPc, mList, mIdx, mSummary, mProcessed, mFailed, mResult, mExit>>

auxVars == <<scanVars, rdVars, mainVars>>

vars == <<storeVars, runVars, histVars, ftVars, auxVars>>

\* ------------------------------------------------------------------ store
\* paths of the points of a point set
PathsOf(st) == {pt.payload.file_path : pt \in st}

is_file_never_indexed(st, file_path) == FALSE

\* client.query with a must-match filter on file_path and limit 1, when the
\* query succeeds: is the result non-empty
is_file_already_indexed(st, file_path) ==
    \E pt \in st : pt.payload.file_path = file_path

\* the store's upsert: a point replaces the point of the same id
UpsertInto(st, pts) ==
    {pt \in st : \A k \in 1..Len(pts) : pts[k].id # pt.id} \cup {pts[k] : k \in 1..Len(pts)}

\* initial values of the variables of the operations modelled on their own
\* scan_dir not yet called, on the empty directory "d"
InitScanIdle ==
    /\ fs = FsRecord(<<"d">>, 0, <<>>, [i \in {0} |-> "dir"], <<>>, 0, "none")
    /\ skip_hidden = TRUE
    /\ walk = <<>>
    /\ scanPc = "idle"
    /\ scanPos = 1
    /\ file_metadata_list = <<>>
    /\ folder_metadata_list = <<>>
    /\ file_count = 0
    /\ folder_count = 0
    /\ scanLogged = {}
    /\ scanResult = "none"

\* no read_document call
NoReader == [reader |-> "none", from |-> "none", to |-> "none", outcome |-> "none"]

InitRdIdle ==
    /\ rdPath = <<>>
    /\ rdCall = NoReader
    /\ rdResult = "none"

InitMainIdle ==
    /\ mPc = "idle"
    /\ mList = <<>>
    /\ mIdx = 1
    /\ mSummary = ""
    /\ mProcessed = {}
    /\ mFailed = {}
    /\ mResult = "none"
    /\ mExit = "none"

InitAux == InitScanIdle /\ InitRdIdle /\ InitMainIdle

InitStore ==
    /\ store = {}
    /\ collections = {}
    /\ createCall = NoCall
    /\ queryCall = NoQuery

InitRun ==
    /\ pc = "idle"
    /\ list = <<>>
    /\ force = "None"
    /\ idx = 1
    /\ points = <<>>
    /\ summary = ""
    /\ dense = <<>>
    /\ result = "none"
    /\ exit = "none"
    /\ nextId = 1
    /\ runs = 0
    /\ startStore = {}
    /\ prev = [list |-> <<>>, added |-> 0, ran |-> FALSE]
    /\ skipped = {}
    /\ extracted = {}
    /\ llmReqs = {}
    /\ embedded = {}
    /\ failed = {}
    /\ noDense = {}
    /\ checkFailed = {}
    /\ upserts = <<>>

Init ==
    /\ InitStore
    /\ InitRun
    /\ ftPath = <<>>
    /\ ftResult = "none"
    /\ InitAux

\* -------------------------------------------- create_hybrid_collection
collection_exists_never(colls, collection_name) == FALSE

\* client.collection_exists(collection_name), when the request succeeds
collection_exists(colls, collection_name) ==
    \E c \in colls : c.name = collection_name

\* create_hybrid_collection(client, collection_name). existsOk and createOk
\* are whether the two requests reach the store; the store refuses to create
\* a collection whose name is taken. createCall.existed is whether the
\* collection was there when the call was made, answered whether the
\* existence check got its answer, requested whether a create request was sent.
create_hybrid_collection(collection_name, existsOk, createOk) ==
    LET there == \E c \in collections : c.name = collection_name
        call(requested, res) == [name |-> collection_name, existed |-> there,
                                 answered |-> existsOk, requested |-> requested,
                                 result |-> res]
    IN  /\ pc \in {"idle", "done"}
        /\ queryCall' = NoQuery
        /\ UNCHANGED <<store, runVars, histVars, ftVars>>
        /\ IF ~existsOk
           THEN /\ createCall' = call(FALSE, "Err")
                /\ UNCHANGED collections
           ELSE IF collection_exists(collections, collection_name)
           THEN /\ createCall' = call(FALSE, "Ok")
                /\ UNCHANGED collections
           ELSE IF createOk /\ ~there
           THEN /\ createCall' = call(TRUE, "Ok")
                /\ collections' = collections \cup {HybridConfig(collection_name)}
           ELSE /\ createCall' = call(TRUE, "Err")
                /\ UNCHANGED collections

CreateHybridCollection ==
    /\ \E n \in CollectionNames, existsOk \in BOOLEAN, createOk \in BOOLEAN :
        create_hybrid_collection(n, existsOk, createOk)
    /\ UNCHANGED auxVars

\* ------------------------------------------- process_and_upload_files
\* entry of process_and_upload_files: arguments, setup_fastembed()?, empty batch
StartRunUpTo(maxRuns) ==
    /\ pc \in {"idle", "done"}
    /\ runs < maxRuns
    /\ \E l \in FileLists, f \in ForceOptions, setupOk \in BOOLEAN :
        /\ list' = l
        /\ force' = f
        /\ IF setupOk
           THEN /\ pc' = IF Len(l) = 0 THEN "upsert" ELSE "check"
                /\ result' = "none"
                /\ exit' = "none"
           ELSE /\ pc' = "done"
                /\ result' = "Err"
                /\ exit' = "setup"
    /\ idx' = 1
    /\ points' = <<>>
    /\ summary' = ""
    /\ dense' = <<>>
    /\ runs' = runs + 1
    /\ startStore' = store
    /\ prev' = [list |-> list, added |-> Cardinality(store \ startStore), ran |-> runs > 0]
    /\ skipped' = {}
    /\ extracted' = {}
    /\ llmReqs' = {}
    /\ embedded' = {}
    /\ failed' = {}
    /\ noDense' = {}
    /\ checkFailed' = {}
    /\ upserts' = <<>>
    /\ createCall' = NoCall
    /\ queryCall' = NoQuery
    /\ UNCHANGED <<store, collections, nextId, ftVars, auxVars>>

\* a run of process_and_upload_files starts, MaxRuns times at most
StartRun == StartRunUpTo(MaxRuns)

\* the for loop moves to the next file, or leaves the loop after the last
NextFile ==
    /\ idx' = idx + 1
    /\ pc' = IF idx + 1 > Len(list) THEN "upsert" ELSE "check"
    /\ summary' = ""
    /\ dense' = <<>>
    /\ UNCHANGED <<result, exit>>

\* an Err propagated by ? out of process_and_upload_files
Propagate(where) ==
    /\ pc' = "done"
    /\ result' = "Err"
    /\ exit' = where
    /\ UNCHANGED <<idx, summary, dense>>

\* config.scan.model_name (ScanConfig::default)
ModelName == "gemma2:2b"

\* ------------------------------------------------ generate_file_summary
\* the request generate_file_summary sends for a text content
TextRequest(model, content) ==
    [model |-> model, prompt |-> "Summarize the contents of file: ", content |-> content,
     system |-> "You are a helpful assistant who summarizes file contents.", image |-> FALSE]

\* the request generate_image_summary sends
ImageRequest(image_path) ==
    [model |-> "minicpm-v", prompt |-> "Describe this image.",
     content |-> [kind |-> "image", of |-> image_path], system |-> "", image |-> TRUE]

\* outcomes of one language-model request: Err, or Ok with a response
Generate(extract, req) ==
    {[extract |-> extract, llm |-> {req}, ok |-> FALSE, text |-> ""]}
    \cup {[extract |-> extract, llm |-> {req}, ok |-> TRUE, text |-> r] : r \in LLMResponses}

\* a content reader that returned Err: no request is sent
ReadFailed == [extract |-> TRUE, llm |-> {}, ok |-> FALSE, text |-> ""]

\* summary.rs line 26: the content of a file of category Other
SentinelText == "Summary not available for this file type."

\* generate_file_summary(model, file_metadata): the set of its possible
\* outcomes. extract: a file reader ran; llm: the requests sent; ok, text: the
\* Result returned.
generate_file_summary(model, file) ==
    IF file.filetype = "Document"
    THEN {ReadFailed}
         \cup Generate(TRUE, TextRequest(model, [kind |-> "document", of |-> file.path]))
    ELSE IF file.filetype = "Image"
    THEN {ReadFailed} \cup Generate(TRUE, ImageRequest(file.path))
    ELSE IF file.filetype = "Audio"
    THEN Generate(FALSE, TextRequest(model, [kind |-> "Audio transcription for: ", of |-> file.path]))
    ELSE IF file.filetype = "Video"
    THEN Generate(FALSE, TextRequest(model, [kind |-> "Video transcription for: ", of |-> file.path]))
    ELSE IF file.filetype = "Archive"
    THEN Generate(FALSE, TextRequest(model, [kind |-> "Archive summary for: ", of |-> file.path]))
    ELSE Generate(FALSE, TextRequest(model,
             [kind |-> SentinelText, of |-> <<>>]))

get_or_generate_summary_always(model, file, force_regenerate) ==
    generate_file_summary(model, file)

\* get_or_generate_summary(config, file, force_regenerate): its possible outcomes
get_or_generate_summary(model, file, force_regenerate) ==
    IF ~force_regenerate /\ file.summary # ""
    THEN {[extract |-> FALSE, llm |-> {}, ok |-> TRUE, text |-> file.summary]}
    ELSE generate_file_summary(model, file)

\* ---------------------------------------------------- generate_embeddings
\* chunk_string(input, "bert-base-cased", 20..40): the chunks of a text. The
\* empty text has no chunk, the text "old" fits one chunk, a generated text
\* takes two.
chunk_string(input) ==
    IF input = "" THEN <<>>
    ELSE IF input = "old" THEN <<[text |-> input, part |-> 1]>>
    ELSE <<[text |-> input, part |-> 1], [text |-> input, part |-> 2]>>

\* model.embed: one dense vector per chunk, the same for the same chunk
DenseEmbed(chunks) == [k \in 1..Len(chunks) |-> [embedding_of |-> chunks[k]]]

\* -------------------------------------------------------------- the loop
AbortOnFailedFile ==
    Propagate("file")

\* `continue` in the Err arms of the two matches
SkipFailedFile ==
    NextFile

\* line 139: is_file_already_indexed(client, &file.path).await?
\* queryOk: whether the query to the store succeeds
CheckIndexed ==
    /\ pc = "check"
    /\ \E queryOk \in BOOLEAN :
        IF ~queryOk \/ ~(\E c \in collections : c.name = "file_data")
        THEN /\ checkFailed' = checkFailed \cup {idx}
             /\ Propagate("check")
             /\ UNCHANGED skipped
        ELSE IF is_file_already_indexed(store, list[idx].path)
        THEN /\ skipped' = skipped \cup {idx}
             /\ NextFile
             /\ UNCHANGED checkFailed
        ELSE /\ pc' = "summary"
             /\ UNCHANGED <<idx, summary, dense, result, exit, skipped, checkFailed>>
    /\ UNCHANGED <<storeVars, list, force, points, nextId, runs, ftVars, auxVars>>
    /\ UNCHANGED <<startStore, prev, extracted, llmReqs, embedded, failed, noDense, upserts>>

\* lines 145-151: the summary of the current file, or skip the file
GetOrGenerateSummary ==
    /\ pc = "summary"
    /\ \E o \in get_or_generate_summary(ModelName, list[idx], unwrap_or_false(force)) :
        /\ extracted' = IF o.extract THEN extracted \cup {idx} ELSE extracted
        /\ llmReqs' = llmReqs \cup {[idx |-> idx, req |-> r] : r \in o.llm}
        /\ IF o.ok
           THEN /\ summary' = o.text
                /\ pc' = "embed"
                /\ UNCHANGED <<idx, dense, result, exit, failed>>
           ELSE /\ failed' = failed \cup {idx}
                /\ SkipFailedFile
    /\ UNCHANGED <<storeVars, list, force, points, nextId, runs, ftVars, auxVars>>
    /\ UNCHANGED <<startStore, prev, skipped, embedded, noDense, checkFailed, upserts>>

\* lines 154-161: generate_embeddings(summary.clone(), &model, &sparse_model).
\* outcome "panic": Tokenizer::from_pretrained fails under expect in
\* chunk_string; "err": one of the two embed calls returns Err.
GenerateEmbeddings ==
    /\ pc = "embed"
    /\ embedded' = embedded \cup {idx}
    /\ \E outcome \in {"ok", "err", "panic"} :
        IF outcome = "ok"
        THEN /\ dense' = DenseEmbed(chunk_string(summary))
             /\ pc' = "point"
             /\ UNCHANGED <<idx, summary, result, exit, failed>>
        ELSE IF outcome = "err"
        THEN /\ failed' = failed \cup {idx}
             /\ SkipFailedFile
        ELSE /\ pc' = "done"
             /\ result' = "Panic"
             /\ exit' = "panic"
             /\ UNCHANGED <<idx, summary, dense, failed>>
    /\ UNCHANGED <<storeVars, list, force, points, nextId, runs, ftVars, auxVars>>
    /\ UNCHANGED <<startStore, prev, skipped, extracted, llmReqs, noDense, checkFailed, upserts>>

\* lines 164-168: the payload of the current file
PayloadOf(file, sum) ==
    [file_name |-> file.name, file_path |-> file.path, file_size |-> file.size,
     summary |-> sum]

PointStructWithSparse(id, dense_embedding, payload) ==
    [id |-> id, vectors |-> [n \in {"novum", "splade"} |-> dense_embedding], payload |-> payload]

\* lines 172-176: the point of the current file
PointStruct(id, dense_embedding, payload) ==
    [id |-> id, vectors |-> [n \in {"novum"} |-> dense_embedding], payload |-> payload]

\* lines 164-180: a point for the file when it has a dense embedding
BuildPoint ==
    /\ pc = "point"
    /\ IF dense # <<>>
       THEN /\ points' = Append(points, PointStruct(nextId, dense[1], PayloadOf(list[idx], summary)))
            /\ nextId' = nextId + 1
            /\ UNCHANGED noDense
       ELSE /\ noDense' = noDense \cup {idx}
            /\ UNCHANGED <<points, nextId>>
    /\ NextFile
    /\ UNCHANGED <<storeVars, list, force, runs, ftVars, auxVars>>
    /\ UNCHANGED <<startStore, prev, skipped, extracted, llmReqs, embedded, failed, checkFailed, upserts>>

ShouldUpsertAlways(pts) == TRUE

\* line 184: !points.is_empty()
ShouldUpsert(pts) == pts # <<>>

UpsertRequestNoWait(pts) ==
    [collection_name |-> "file_data", wait |-> FALSE, points |-> pts]

\* lines 186-191: the UpsertPoints request
UpsertRequest(pts) ==
    [collection_name |-> "file_data", wait |-> TRUE, points |-> pts]

\* lines 183-200: one upsert of the batch if it is not empty, then Ok(())
\* upsertOk: whether the store accepts the request
UpsertPoints ==
    /\ pc = "upsert"
    /\ pc' = "done"
    /\ IF ShouldUpsert(points)
       THEN /\ upserts' = Append(upserts, [req |-> UpsertRequest(points), at |-> idx])
            /\ \E upsertOk \in BOOLEAN :
                IF upsertOk /\ (\E c \in collections : c.name = "file_data")
                THEN /\ store' = UpsertInto(store, points)
                     /\ result' = "Ok"
                     /\ exit' = "end"
                ELSE /\ UNCHANGED store
                     /\ result' = "Err"
                     /\ exit' = "upsert"
       ELSE /\ UNCHANGED <<upserts, store>>
            /\ result' = "Ok"
            /\ exit' = "end"
    /\ UNCHANGED <<collections, createCall, queryCall, list, force, idx, points, summary, dense, nextId, runs, ftVars, auxVars>>
    /\ UNCHANGED <<startStore, prev, skipped, extracted, llmReqs, embedded, failed, noDense, checkFailed>>

\* ------------------------------------------ query_and_print_file_paths
\* what the store does with a request: a query reads, an upsert writes the
\* points, a delete removes every point of the collection
ApplyRequest(st, req) ==
    IF req.op = "upsert" THEN UpsertInto(st, req.points)
    ELSE IF req.op = "delete" THEN {}
    ELSE st

RECURSIVE ApplyAll(_, _)
\* the store after a sequence of requests
ApplyAll(st, reqs) ==
    IF reqs = <<>> THEN st ELSE ApplyAll(ApplyRequest(st, Head(reqs)), Tail(reqs))

\* lines 212-223: the QueryPointsBuilder request
QueryRequest(collection_name, query_vector, limit, use_sparse) ==
    [op |-> "query", collection_name |-> collection_name, query |-> query_vector,
     using |-> IF use_sparse THEN "splade" ELSE "novum", limit |-> limit,
     with_payload |-> TRUE, hnsw_ef |-> 128, exact |-> FALSE]

query_and_delete(collection_name, query_vector, limit, use_sparse) ==
    <<QueryRequest(collection_name, query_vector, limit, use_sparse),
      [op |-> "delete", collection_name |-> collection_name]>>

\* query_and_print_file_paths: the requests it sends to the store
query_and_print_file_paths(collection_name, query_vector, limit, use_sparse) ==
    <<QueryRequest(collection_name, query_vector, limit, use_sparse)>>

\* one call of query_and_print_file_paths on collection "file_data"
\* queryOk: whether the query reaches the store
QueryAndPrintFilePaths ==
    /\ pc \in {"idle", "done"}
    /\ \E qv \in QueryVectors, limit \in QueryLimits, use_sparse \in BOOLEAN, queryOk \in BOOLEAN :
        LET reqs == query_and_print_file_paths("file_data", qv, limit, use_sparse)
        IN  /\ store' = ApplyAll(store, reqs)
            /\ queryCall' = [requests |-> reqs, use_sparse |-> use_sparse, limit |-> limit,
                             before |-> store,
                             result |-> IF queryOk /\ collection_exists(collections, "file_data")
                                        THEN "Ok" ELSE "Err"]
    /\ createCall' = NoCall
    /\ UNCHANGED <<collections, runVars, histVars, ftVars, auxVars>>

Next ==
    \/ CreateHybridCollection
    \/ StartRun
    \/ CheckIndexed
    \/ GetOrGenerateSummary
    \/ GenerateEmbeddings
    \/ BuildPoint
    \/ UpsertPoints

Spec == Init /\ [][Next]_vars

\* -------------------------- queries before and after one indexing run
\* the one run of process_and_upload_files that queries go with
StartOneRun == StartRunUpTo(1)

NextQuery ==
    \/ QueryAndPrintFilePaths
    \/ CreateHybridCollection
    \/ StartOneRun
    \/ CheckIndexed
    \/ GetOrGenerateSummary
    \/ GenerateEmbeddings
    \/ BuildPoint
    \/ UpsertPoints

SpecQuery == Init /\ [][NextQuery]_vars

\* ----------------------------------------- FileType::from_path on its own
InitFromPath ==
    /\ InitStore
    /\ InitRun
    /\ ftPath \in Paths
    /\ ftResult = "none"
    /\ InitAux

\* one call FileType::from_path(ftPath)
FromPathCall ==
    /\ ftResult = "none"
    /\ ftResult' = from_path(ftPath)
    /\ UNCHANGED <<storeVars, runVars, histVars, ftPath, auxVars>>

NextFromPath == FromPathCall

SpecFromPath == InitFromPath /\ [][NextFromPath]_vars

\* ------------------------------------------------ DirScanConfig::scan_dir
\* scan_dir is called on a file system, with skip_hidden set or not
InitScan ==
    /\ InitStore
    /\ InitRun
    /\ ftPath = <<>>
    /\ ftResult = "none"
    /\ InitRdIdle
    /\ InitMainIdle
    /\ fs \in FileSystems
    /\ skip_hidden \in BOOLEAN
    /\ walk = <<>>
    /\ scanPc = "idle"
    /\ scanPos = 1
    /\ file_metadata_list = <<>>
    /\ folder_metadata_list = <<>>
    /\ file_count = 0
    /\ folder_count = 0
    /\ scanLogged = {}
    /\ scanResult = "none"

\* lines 81-97: the locals, and the iterator of the for loop
ScanStart ==
    /\ scanPc = "idle"
    /\ walk' = WalkFrom(fs, 0, 0, MaxDepth, TRUE, skip_hidden)
    /\ scanPc' = "loop"
    /\ UNCHANGED <<storeVars, runVars, histVars, ftVars, rdVars, mainVars, fs, skip_hidden, scanPos,
                   file_metadata_list, folder_metadata_list, file_count,
                   folder_count, scanLogged, scanResult>>

\* `?` in scan_dir: the function returns the error
ScanPropagate ==
    /\ scanPc' = "done"
    /\ scanResult' = "Err"
    /\ UNCHANGED <<scanPos, file_metadata_list, folder_metadata_list, scanLogged>>

\* lines 100-122: a directory entry
ScanFolder(i) ==
    /\ folder_count' = folder_count + 1
    /\ file_count' = file_count
    /\ IF StatFails(fs, i) \/ ~calculate_folder_size(fs, i).ok
       THEN ScanPropagate
       ELSE /\ folder_metadata_list' =
                 Append(folder_metadata_list,
                        FolderMetadata(fs, i, calculate_folder_size(fs, i).v,
                                       file_metadata_list))
            /\ scanPos' = scanPos + 1
            /\ UNCHANGED <<scanPc, scanResult, file_metadata_list, scanLogged>>

\* lines 123-148: a file entry
ScanFile(i) ==
    /\ file_count' = file_count + 1
    /\ folder_count' = folder_count
    /\ IF StatFails(fs, i)
       THEN ScanPropagate
       ELSE /\ file_metadata_list' =
                 Append(file_metadata_list, FileMetadata(PathOf(fs, i), SizeOf(i), ""))
            /\ scanPos' = scanPos + 1
            /\ UNCHANGED <<scanPc, scanResult, folder_metadata_list, scanLogged>>

\* line 150: an Err item of the walker is printed, the loop goes on
ScanLogError ==
    /\ scanLogged' = scanLogged \cup {scanPos}
    /\ scanPos' = scanPos + 1
    /\ UNCHANGED <<scanPc, scanResult, file_metadata_list, folder_metadata_list,
                   file_count, folder_count>>

\* lines 98-152: one iteration of the for loop
ScanEntry ==
    /\ scanPc = "loop"
    /\ scanPos <= Len(walk)
    /\ IF ~walk[scanPos].ok THEN ScanLogError
       ELSE IF fs.kind[walk[scanPos].node] = "dir" THEN ScanFolder(walk[scanPos].node)
       ELSE ScanFile(walk[scanPos].node)
    /\ UNCHANGED <<storeVars, runVars, histVars, ftVars, rdVars, mainVars, fs, skip_hidden, walk>>

\* lines 160-169: the loop is over, scan_dir returns Ok(DirScanResult)
ScanReturn ==
    /\ scanPc = "loop"
    /\ scanPos > Len(walk)
    /\ scanPc' = "done"
    /\ scanResult' = "Ok"
    /\ UNCHANGED <<storeVars, runVars, histVars, ftVars, rdVars, mainVars, fs, skip_hidden, walk,
                   scanPos, file_metadata_list, folder_metadata_list, file_count,
                   folder_count, scanLogged>>

NextScan ==
    \/ ScanStart
    \/ ScanEntry
    \/ ScanReturn

SpecScan == InitScan /\ [][NextScan]_vars

\* ---------------------------------------------------------- read_document
\* char::to_uppercase of a letter
UpperChar(c) ==
    IF \E i \in 1..Len(LowerLetters) : LowerLetters[i] = c
    THEN UpperLetters[CHOOSE i \in 1..Len(LowerLetters) : LowerLetters[i] = c]
    ELSE c

\* extensions read_document is called with, in lower case: those of the
\* match of detect_input_format and four it does not name
RdWords ==
    { <<"p","d","f">>,
      <<"x","l","s","x">>,
      <<"p","p","t","x">>,
      <<"m","d">>,
      <<"m","a","r","k","d","o","w","n">>,
      <<"d","o","c","x">>,
      <<"e","p","u","b">>,
      <<"h","t","m","l">>,
      <<"h","t","m">>,
      <<"r","t","f">>,
      <<"t","e","x">>,
      <<"j","s","o","n">>,
      <<"r","s","t">>,
      <<"o","p","m","l">>,
      <<"o","r","g">>,
      <<"w","i","k","i">>,
      <<"m","e","d","i","a","w","i","k","i">>,
      <<"t","x","t">>,
      <<"p","l","a","i","n">>,
      <<"p","d">>,
      <<"m","d","x">> }

\* a word as it is, in upper case, and with an upper-case first letter
CaseVariants(w) ==
    { w, [i \in 1..Len(w) |-> UpperChar(w[i])],
      [i \in 1..Len(w) |-> IF i = 1 THEN UpperChar(w[i]) ELSE w[i]] }

\* what comes before the extension: a file name, a file name in a directory
\* whose name has a "."
RdPrefixes == {<<"a", ".">>, <<"d", ".", "x", "/", "a", ".">>}

\* paths without an extension, or with an empty one
RdPlainPaths ==
    {<<"a">>, <<"d", ".", "m", "d", "/", "a">>, <<".", "m", "d">>, <<"a", ".">>}

\* the file_path arguments of read_document
RdPaths ==
    {p \o v : p \in RdPrefixes, v \in UNION {CaseVariants(w) : w \in RdWords}}
    \cup RdPlainPaths

\* InputFormat::Other(format)
InputFormatOther(format) == [variant |-> "Other", other |-> format]

\* lines 70-80: the extensions with a dedicated InputFormat variant
InputFormatTable ==
    { <<<<"m","d">>, "Markdown">>,
      <<<<"m","a","r","k","d","o","w","n">>, "Markdown">>,
      <<<<"d","o","c","x">>, "Docx">>,
      <<<<"e","p","u","b">>, "Epub">>,
      <<<<"h","t","m","l">>, "Html">>,
      <<<<"h","t","m">>, "Html">>,
      <<<<"r","t","f">>, "Rtf">>,
      <<<<"t","e","x">>, "Latex">>,
      <<<<"j","s","o","n">>, "Json">>,
      <<<<"r","s","t">>, "Rst">>,
      <<<<"o","p","m","l">>, "Opml">>,
      <<<<"o","r","g">>, "Org">>,
      <<<<"w","i","k","i">>, "MediaWiki">>,
      <<<<"m","e","d","i","a","w","i","k","i">>, "MediaWiki">> }

detect_input_format_case_sensitive(file_path) ==
    LET e == extension(file_path)
    IN  IF ~e.some THEN InputFormatOther(<<"p","l","a","i","n">>)
        ELSE IF \E r \in InputFormatTable : r[1] = e.v
             THEN [variant |-> (CHOOSE r \in InputFormatTable : r[1] = e.v)[2],
                   other |-> <<>>]
             ELSE InputFormatOther(e.v)

\* detect_input_format: the InputFormat of the lower-cased extension
detect_input_format(file_path) ==
    LET e == extension(file_path)
    IN  IF ~e.some THEN InputFormatOther(<<"p","l","a","i","n">>)
        ELSE LET l == to_lowercase(e.v)
             IN  IF \E r \in InputFormatTable : r[1] = l
                 THEN [variant |-> (CHOOSE r \in InputFormatTable : r[1] = l)[2],
                       other |-> <<>>]
                 ELSE InputFormatOther(l)

\* lines 176-186: the variants handed to pandoc
PandocVariants ==
    {"Markdown", "Docx", "Epub", "Html", "Rtf", "Latex", "Json", "Rst", "Opml",
     "Org", "MediaWiki"}

\* the match of read_document: the reader the file goes to
ReaderOf(input_format) ==
    IF input_format.variant = "Other" /\ input_format.other = <<"p","d","f">>
    THEN "read_pdf"
    ELSE IF input_format.variant = "Other" /\ input_format.other = <<"x","l","s","x">>
    THEN "read_xlsx"
    ELSE IF input_format.variant = "Other" /\ input_format.other = <<"p","p","t","x">>
    THEN "read_pptx"
    ELSE IF input_format.variant \in PandocVariants THEN "pandoc"
    ELSE "read_plain_text"

\* what a reader can do: pandoc cannot be started, exits with a non-zero
\* status, prints bytes that are not UTF-8, or prints text; another reader
\* returns Err or the text
ReaderOutcomes(reader) ==
    IF reader = "pandoc" THEN {"spawn_failed", "exit_nonzero", "bad_utf8", "ok"}
    ELSE {"err", "ok"}

\* read_document(file_path): the call it makes and the Result it returns
read_document(file_path, outcome) ==
    LET input_format == detect_input_format(file_path)
        reader == ReaderOf(input_format)
    IN  [call |-> [reader |-> reader,
                   from |-> IF reader = "pandoc" THEN input_format.variant ELSE "none",
                   to |-> IF reader = "pandoc" THEN "plain" ELSE "none",
                   outcome |-> outcome],
         result |-> IF outcome = "ok" THEN "Ok" ELSE "Err"]

InitReadDocument ==
    /\ InitStore
    /\ InitRun
    /\ ftPath = <<>>
    /\ ftResult = "none"
    /\ InitScanIdle
    /\ InitMainIdle
    /\ rdPath \in RdPaths
    /\ rdCall = NoReader
    /\ rdResult = "none"

\* one call read_document(rdPath)
ReadDocument ==
    /\ rdResult = "none"
    /\ \E outcome \in ReaderOutcomes(ReaderOf(detect_input_format(rdPath))) :
        /\ rdCall' = read_document(rdPath, outcome).call
        /\ rdResult' = read_document(rdPath, outcome).result
    /\ UNCHANGED <<storeVars, runVars, histVars, ftVars, scanVars, mainVars, rdPath>>

NextReadDocument == ReadDocument

SpecReadDocument == InitReadDocument /\ [][NextReadDocument]_vars

\* -------------------------------------------------------------------- main
\* the lists scan_dir returns to main: records that have no summary yet
MainLists ==
    UNION {[1..n -> {FileMetadata(p, 1, "") : p \in {PathDoc, PathPlain, PathImage}}] :
             n \in 0..MaxListLen}

\* main starts on the initial state of the store
InitMain == Init

\* `?` in main: the command ends with the error
MainPropagate(where) ==
    /\ mPc' = "done"
    /\ mResult' = "Err"
    /\ mExit' = where

\* lines 32-38: the client and the embedding models are built, then
\* create_hybrid_collection(&client, "file_data").await?
\* buildOk: whether from_url(..).build() and the two try_new succeed
MainCreate ==
    /\ mPc = "idle"
    /\ \E buildOk \in BOOLEAN, existsOk \in BOOLEAN, createOk \in BOOLEAN :
        IF ~buildOk
        THEN /\ MainPropagate("setup")
             /\ UNCHANGED <<storeVars, runVars, histVars, ftVars>>
        ELSE /\ create_hybrid_collection("file_data", existsOk, createOk)
             /\ IF createCall'.result = "Ok"
                THEN /\ mPc' = "scan"
                     /\ UNCHANGED <<mResult, mExit>>
                ELSE MainPropagate("create")
    /\ UNCHANGED <<mList, mIdx, mSummary, mProcessed, mFailed, scanVars, rdVars>>

\* lines 40-46: scan_config.scan_dir().await?, then the tokenizer is loaded
\* with unwrap() and the splitter built
MainScan ==
    /\ mPc = "scan"
    /\ \E outcome \in {"ok", "scan_err", "tokenizer_panic"}, l \in MainLists :
        IF outcome = "ok"
        THEN /\ mList' = l
             /\ mPc' = IF Len(l) = 0 THEN "query" ELSE "loop"
             /\ UNCHANGED <<mResult, mExit>>
        ELSE /\ mPc' = "done"
             /\ mResult' = IF outcome = "scan_err" THEN "Err" ELSE "Panic"
             /\ mExit' = "scan"
             /\ UNCHANGED mList
    /\ UNCHANGED <<storeVars, runVars, histVars, ftVars, scanVars, rdVars,
                   mIdx, mSummary, mProcessed, mFailed>>

\* lines 51, 64, 65: the `?` after generate_file_summary and after embed
MainFailedFile ==
    /\ MainPropagate("file")
    /\ UNCHANGED mIdx

\* lines 49-69: one iteration of main's for loop
\* embedOk: whether model.embed and sparse_model.embed both succeed
MainFile ==
    /\ mPc = "loop"
    /\ \E o \in generate_file_summary("gemma2:2b", mList[mIdx]), embedOk \in BOOLEAN :
        IF ~o.ok
        THEN /\ mFailed' = mFailed \cup {mIdx}
             /\ MainFailedFile
             /\ UNCHANGED <<mList, mSummary, mProcessed>>
        ELSE /\ mList' = [mList EXCEPT ![mIdx].summary = o.text]
             /\ mSummary' = o.text
             /\ IF ~embedOk
                THEN /\ mFailed' = mFailed \cup {mIdx}
                     /\ MainFailedFile
                     /\ UNCHANGED mProcessed
                ELSE /\ mProcessed' = mProcessed \cup {mIdx}
                     /\ mIdx' = mIdx + 1
                     /\ mPc' = IF mIdx = Len(mList) THEN "query" ELSE "loop"
                     /\ UNCHANGED <<mFailed, mResult, mExit>>
    /\ UNCHANGED <<storeVars, runVars, histVars, ftVars, scanVars, rdVars>>

\* lines 71-86: the query is embedded, query_and_print_file_paths(&client,
\* "file_data", query_vector, 5, false).await?, then the scroll
MainQuery ==
    /\ mPc = "query"
    /\ \E qv \in QueryVectors, embedOk \in BOOLEAN, queryOk \in BOOLEAN, scrollOk \in BOOLEAN :
        IF ~embedOk
        THEN /\ MainPropagate("query")
             /\ UNCHANGED <<store, queryCall>>
        ELSE LET reqs == query_and_print_file_paths("file_data", qv, 5, FALSE)
             IN  /\ store' = ApplyAll(store, reqs)
                 /\ queryCall' = [requests |-> reqs, use_sparse |-> FALSE, limit |-> 5,
                                  before |-> store,
                                  result |-> IF queryOk THEN "Ok" ELSE "Err"]
                 /\ IF queryOk /\ scrollOk
                    THEN /\ mPc' = "done"
                         /\ mResult' = "Ok"
                         /\ mExit' = "end"
                    ELSE MainPropagate("query")
    /\ UNCHANGED <<collections, createCall, runVars, histVars, ftVars, scanVars, rdVars,
                   mList, mIdx, mSummary, mProcessed, mFailed>>

NextMain ==
    \/ MainCreate
    \/ MainScan
    \/ MainFile
    \/ MainQuery

SpecMain == InitMain /\ [][NextMain]_vars

\* ================================================================ claims
\* indices of the current run's list
Indices == 1..Len(list)

\* indices of files that were neither skipped as indexed, nor failed, nor
\* left without a dense vector
IsEligible(i) == i \notin skipped /\ i \notin failed /\ i \notin noDense

EligiblePaths ==
    LET ix == SelectSeq([i \in 1..Len(list) |-> i], IsEligible)
    IN  [k \in 1..Len(ix) |-> list[ix[k]].path]

BatchPaths == [k \in 1..Len(points) |-> points[k].payload.file_path]

\* the for loop ran to its end (line 184 was reached)
LoopCompleted == exit \in {"end", "upsert"}

\* C1: the store never holds two points whose payload file_path is the same.
DedupInvariant ==
    \A p \in store, q \in store : p.payload.file_path = q.payload.file_path => p = q

\* C2: a run on the same list as the run before it, every file of which is
\* in the store when it starts, adds no point: the store is as the first run
\* left it and nothing is upserted.
SecondRunAddsNothing ==
    (/\ pc = "done"
     /\ prev.ran
     /\ list = prev.list
     /\ \A i \in Indices : list[i].path \in PathsOf(startStore))
    => (store = startStore /\ points = <<>> /\ upserts = <<>>)

SecondRunWitness ==
    /\ pc = "done"
    /\ result = "Ok"
    /\ prev.ran
    /\ list = prev.list
    /\ Len(list) = 2
    /\ list[1].path # list[2].path
    /\ prev.added = 2
    /\ skipped = Indices
    /\ store = startStore

DedupCheckFailureTolerated ==
    \A i \in checkFailed : ~(pc = "done" /\ result = "Err" /\ idx = i /\ i \notin embedded)

\* C5: a run sends at most one upsert request; it carries the whole batch
\* with wait set, is sent after the last file of the list, and the store is
\* not written before it.
SingleUpsertAfterLoop ==
    /\ Len(upserts) <= 1
    /\ \A k \in 1..Len(upserts) :
        /\ upserts[k].req.wait = TRUE
        /\ upserts[k].req.points = points
        /\ upserts[k].req.collection_name = "file_data"
        /\ upserts[k].at = Len(list) + 1
    /\ pc # "done" => (upserts = <<>> /\ store = startStore)
    /\ pc = "done" =>
        \/ store = startStore
        \/ (Len(upserts) = 1 /\ store = UpsertInto(startStore, points))

SingleUpsertWitness ==
    /\ pc = "done"
    /\ result = "Ok"
    /\ Len(upserts) = 1
    /\ Len(points) = 2
    /\ store = UpsertInto(startStore, points)
    /\ store # startStore

\* C6: when the loop ends with an empty batch no upsert request is sent, the
\* store is unchanged and the run returns Ok.
EmptyBatchIsNoOp ==
    (pc = "done" /\ LoopCompleted /\ points = <<>>)
    => (upserts = <<>> /\ store = startStore /\ result = "Ok")

EmptyBatchWitness ==
    /\ pc = "done"
    /\ exit = "end"
    /\ points = <<>>
    /\ Len(list) = 2
    /\ skipped # {}
    /\ failed # {}
    /\ result = "Ok"

\* C7: a call that finds the collection sends no create request and returns
\* Ok; a successful create leaves the collection with the dense space
\* "novum" (768, cosine) and the sparse space "splade"; there is never more
\* than one collection of a name and none with another configuration.
CreateCollectionIdempotent ==
    /\ createCall.existed => ~createCall.requested
    /\ (createCall.existed /\ createCall.answered) => createCall.result = "Ok"
    /\ (createCall.requested /\ createCall.result = "Ok")
        => HybridConfig(createCall.name) \in collections
    /\ \A c \in collections :
        /\ c = HybridConfig(c.name)
        /\ c.vectors = [name |-> "novum", size |-> 768, distance |-> "Cosine"]
        /\ c.sparse_vectors = [name |-> "splade"]
    /\ \A c \in collections, d \in collections : c.name = d.name => c = d

CreateCollectionWitness ==
    /\ createCall.existed
    /\ createCall.answered
    /\ createCall.result = "Ok"
    /\ ~createCall.requested
    /\ store # {}
    /\ collections = {HybridConfig("file_data")}

\* indices a reader, the language model or the embedding models were used for
Worked == extracted \cup embedded \cup {r.idx : r \in llmReqs}

\* C8: for a file whose path is in the store when the run starts no reader
\* is called, no request goes to the language model, no embedding is made
\* and no point enters the batch, whatever force_regenerate is; work is done
\* only on files the loop has reached and whose check answered "not indexed".
DedupCheckPrecedesWork ==
    /\ \A i \in Indices :
        list[i].path \in PathsOf(startStore) =>
            /\ i \notin Worked
            /\ \A k \in 1..Len(points) : points[k].payload.file_path # list[i].path
    /\ \A i \in Worked : i <= idx /\ i \notin skipped /\ i \notin checkFailed

DedupCheckWitness ==
    /\ pc = "done"
    /\ exit = "end"
    /\ force = "SomeTrue"
    /\ skipped # {}
    /\ \E i \in skipped : list[i].path \in PathsOf(startStore)

\* C9: a reader or the language model is called for a file only when its
\* summary is empty or force_regenerate is Some(true); otherwise the summary
\* used for the file is the one it has.
SummaryGeneratedOnlyWhenNeeded ==
    /\ \A i \in extracted \cup {r.idx : r \in llmReqs} :
        list[i].summary = "" \/ force = "SomeTrue"
    /\ (pc \in {"embed", "point"} /\ list[idx].summary # "" /\ force # "SomeTrue")
        => summary = list[idx].summary

SummaryKeptWitness ==
    /\ pc = "point"
    /\ force = "None"
    /\ list[idx].summary = "old"
    /\ summary = "old"
    /\ llmReqs = {}
    /\ extracted = {}

\* lower case of an extension, character by character
LowerExt(e) == [i \in 1..Len(e) |-> IF e[i] = "M" THEN "m" ELSE IF e[i] = "P" THEN "p" ELSE e[i]]

\* upper case of an extension, character by character
UpperExt(e) == [i \in 1..Len(e) |-> IF e[i] = "m" THEN "M" ELSE IF e[i] = "p" THEN "P" ELSE e[i]]

\* the extensions of the table that a lower-cased extension can equal
TableExts == DocumentExts \cup ImageExts \cup AudioExts \cup VideoExts \cup ArchiveExts

\* C10: FileType::from_path returns one of the six categories for every
\* path; Other for a path without extension or with an extension outside the
\* table; and the same category for any path whose extension is the same up
\* to letter case.
FromPathTotal ==
    ftResult # "none" =>
        /\ ftResult \in FileTypes
        /\ ~extension(ftPath).some => ftResult = "Other"
        /\ extension(ftPath).some =>
            LET e == extension(ftPath).v
            IN  /\ LowerExt(e) \notin TableExts => ftResult = "Other"
                /\ e # <<>> => ftResult = from_path(<<"g", "/", "d", ".">> \o LowerExt(e))
                /\ e # <<>> => ftResult = from_path(<<"3", ".">> \o UpperExt(e))

FromPathWitness ==
    /\ ftResult = "Document"
    /\ extension(ftPath).some
    /\ extension(ftPath).v = <<"M", "d">>

\* C11: for a file of category Other that generate_file_summary is called
\* for, no reader is called, the summary is the sentinel text and the file
\* does not fail at the summary.
OtherSummaryIsSentinel ==
    \A i \in Indices :
        (/\ list[i].filetype = "Other"
         /\ (list[i].summary = "" \/ force = "SomeTrue")
         /\ i \notin skipped
         /\ i \notin checkFailed)
        => /\ i \notin extracted
           /\ (i = idx /\ pc \in {"embed", "point"}) => summary = SentinelText
           /\ i \in failed => i \in embedded

\* indices of the files the loop has passed whose point was built
IsBuilt(i) == i < idx /\ IsEligible(i)

BuiltFrom == SelectSeq([i \in 1..Len(list) |-> i], IsBuilt)

\* C19: the batch has one point per file that was not skipped, did not fail
\* and has a dense vector, in list order; a point carries the single vector
\* "novum", the embedding of the first chunk of its summary, and the payload
\* file_name, file_path, file_size, summary of its file; ids are distinct.
PointsWellFormed ==
    /\ Len(points) = Len(BuiltFrom)
    /\ \A k \in 1..Len(points) :
        k <= Len(BuiltFrom) =>
            LET p == points[k]
                f == list[BuiltFrom[k]]
            IN  /\ DOMAIN p.vectors = {"novum"}
                /\ chunk_string(p.payload.summary) # <<>>
                /\ p.vectors["novum"] = [embedding_of |-> chunk_string(p.payload.summary)[1]]
                /\ DOMAIN p.payload = {"file_name", "file_path", "file_size", "summary"}
                /\ p.payload.file_name = f.name
                /\ p.payload.file_path = f.path
                /\ p.payload.file_size = f.size
                /\ (f.summary # "" /\ force # "SomeTrue") => p.payload.summary = f.summary
    /\ \A k \in 1..Len(points), j \in 1..Len(points) : k # j => points[k].id # points[j].id

PointsWitness ==
    /\ pc = "done"
    /\ result = "Ok"
    /\ Len(list) = 2
    /\ noDense = {1}
    /\ Len(points) = 1
    /\ points[1].payload.summary = "gen"
    /\ Len(chunk_string("gen")) = 2
    /\ points[1] \in store

\* C15: a call of query_and_print_file_paths sends one request, a query
\* against "splade" when use_sparse is set and "novum" otherwise, with the
\* limit it was given; it sends no other request and the points of the store
\* are those from before the call.
QueryLeavesStore ==
    queryCall.result # "none" =>
        /\ Len(queryCall.requests) = 1
        /\ queryCall.requests[1].op = "query"
        /\ queryCall.requests[1].using = (IF queryCall.use_sparse THEN "splade" ELSE "novum")
        /\ queryCall.requests[1].limit = queryCall.limit
        /\ store = queryCall.before

QueryWitness ==
    /\ queryCall.result = "Ok"
    /\ queryCall.use_sparse
    /\ queryCall.limit = 5
    /\ Cardinality(store) = 2
    /\ store = queryCall.before

RECURSIVE DepthOf(_, _)
\* number of steps from the root down to entry i
DepthOf(f, i) == IF i = 0 THEN 0 ELSE 1 + DepthOf(f, f.parent[i])

RECURSIVE BelowRootUpTo(_, _)
\* entry i and the directories above it, the root left out
BelowRootUpTo(f, i) == IF i = 0 THEN {} ELSE {i} \cup BelowRootUpTo(f, f.parent[i])

\* the name starts with '.' or is one of the excluded names
NameExcluded(name) == (name # <<>> /\ name[1] = ".") \/ name \in DefaultPathsToSkip

\* paths of the files under the root, within the maximum depth, that are not
\* hidden or excluded and not under a hidden or excluded directory
VisibleFilePaths(f) ==
    { PathOf(f, i) : i \in { j \in 1..f.n :
          /\ f.kind[j] = "file"
          /\ DepthOf(f, j) <= MaxDepth
          /\ \A a \in BelowRootUpTo(f, j) : ~NameExcluded(f.name[a]) } }

\* paths of the records of a list of FileMetadata
ListedPaths(fml) == { fml[k].path : k \in 1..Len(fml) }

\* C12: when scan_dir with skip_hidden set returns, and no entry of the tree
\* failed, file_metadata_list holds exactly the files under the root, within
\* the maximum depth, that are neither hidden or excluded by name nor under a
\* hidden or excluded directory, whatever the root path is.
ScanListsVisibleFiles ==
    (scanPc = "done" /\ scanResult = "Ok" /\ skip_hidden /\ fs.badKind = "none")
        => ListedPaths(file_metadata_list) = VisibleFilePaths(fs)

\* paths of the visible files whose metadata can be read and that are under
\* directories that can be listed
ReadableFilePaths(f) ==
    { PathOf(f, i) : i \in { j \in 1..f.n :
          /\ PathOf(f, j) \in VisibleFilePaths(f)
          /\ ~StatFails(f, j)
          /\ \A a \in BelowRootUpTo(f, j) \cup {0} : ~ListFails(f, a) } }

\* C13: whatever entry fails, in the walker or when its metadata is read,
\* scan_dir returns Ok, and its file_metadata_list holds every file that can
\* be read (the root being one the filter lets through).
ScanSkipsFailedEntry ==
    scanPc = "done" =>
        /\ scanResult = "Ok"
        /\ ~(skip_hidden /\ NameExcluded(EntryName(fs, 0)))
              => ReadableFilePaths(fs) \subseteq ListedPaths(file_metadata_list)

\* the entry of the path
NodeAt(f, path) == CHOOSE i \in 0..f.n : PathOf(f, i) = path

\* entry j is below directory i, at any depth
IsUnder(f, j, i) == j # i /\ (i = 0 \/ i \in BelowRootUpTo(f, j))

RECURSIVE SumOfSizes(_)
\* sum of the sizes of a set of entries
SumOfSizes(S) ==
    IF S = {} THEN 0 ELSE LET i == CHOOSE j \in S : TRUE IN SizeOf(i) + SumOfSizes(S \ {i})

\* sum of the sizes of the files below directory i
DescendantSize(f, i) ==
    SumOfSizes({j \in 1..f.n : f.kind[j] = "file" /\ IsUnder(f, j, i)})

\* number of entries of the kind directly in directory i
DirectCount(f, i, kind) ==
    Cardinality({j \in 1..f.n : f.kind[j] = kind /\ f.parent[j] = i})

\* C14: every FolderMetadata of folder_metadata_list has as size the sum of
\* the sizes of the folder's descendant files, as file_count the number of
\* files directly in the folder and as folder_count the number of its direct
\* subfolders.
FolderCountsAreDirect ==
    \A k \in 1..Len(folder_metadata_list) :
        LET fm == folder_metadata_list[k]
            i  == NodeAt(fs, fm.path)
        IN  /\ fm.size = DescendantSize(fs, i)
            /\ fm.file_count = DirectCount(fs, i, "file")
            /\ fm.folder_count = DirectCount(fs, i, "dir")

\* position in the walk of the Ok item of entry i
PosOf(i) == CHOOSE q \in 1..Len(walk) : walk[q].ok /\ walk[q].node = i

\* paths of the files the walk yields before position pos
FilePathsBefore(pos) ==
    { PathOf(fs, walk[q].node) :
        q \in { r \in 1..(pos - 1) : walk[r].ok /\ fs.kind[walk[r].node] = "file" } }

LowerExtOf(p) == IF extension(p).some THEN Some(to_lowercase(extension(p).v)) ELSE None

\* the extensions the conversion tool is used for
PandocExts ==
    { <<"m","d">>,
      <<"m","a","r","k","d","o","w","n">>,
      <<"d","o","c","x">>,
      <<"e","p","u","b">>,
      <<"h","t","m","l">>,
      <<"h","t","m">>,
      <<"r","t","f">>,
      <<"t","e","x">>,
      <<"j","s","o","n">>,
      <<"r","s","t">>,
      <<"o","p","m","l">>,
      <<"o","r","g">>,
      <<"w","i","k","i">>,
      <<"m","e","d","i","a","w","i","k","i">> }

\* C17: read_document sends a path whose lower-cased extension is pdf, xlsx
\* or pptx to read_pdf, read_xlsx or read_pptx; one whose lower-cased
\* extension is md, markdown, docx, epub, html, htm, rtf, tex, json, rst,
\* opml, org, wiki or mediawiki to pandoc with plain output; every other path,
\* and a path without extension, to read_plain_text; and when pandoc exits
\* with a non-zero status the result is Err.
DispatchOnLowerExtension ==
    rdResult # "none" =>
        LET e == LowerExtOf(rdPath)
        IN  /\ (e.some /\ e.v = <<"p","d","f">>) => rdCall.reader = "read_pdf"
            /\ (e.some /\ e.v = <<"x","l","s","x">>) => rdCall.reader = "read_xlsx"
            /\ (e.some /\ e.v = <<"p","p","t","x">>) => rdCall.reader = "read_pptx"
            /\ (e.some /\ e.v \in PandocExts)
                 => (rdCall.reader = "pandoc" /\ rdCall.to = "plain")
            /\ (~e.some \/ e.v \notin (PandocExts \cup
                    {<<"p","d","f">>, <<"x","l","s","x">>, <<"p","p","t","x">>}))
                 => rdCall.reader = "read_plain_text"
            /\ (rdCall.reader = "pandoc" /\ rdCall.outcome = "exit_nonzero")
                 => rdResult = "Err"

\* a path with an upper-case extension went to pandoc, which exited with a
\* non-zero status
DispatchWitness ==
    /\ rdPath = <<"a", ".", "M", "D">>
    /\ rdCall.reader = "pandoc"
    /\ rdCall.outcome = "exit_nonzero"
    /\ rdResult = "Err"

\* C16: a file whose summary or embedding failed in main's loop is left
\* behind: the loop is past it and the command did not end on that failure.
MainSkipsFailedFile ==
    \A i \in mFailed : mIdx > i /\ mExit # "file"

====
